---- MODULE Spec2Model ----
(***************************************************************************)
(* qMusic: quantum-random melody generators streaming notes to Ableton     *)
(* over OSC.  Three scripts are modelled:                                  *)
(*   melody  - Quantum Music/qumusic_generate.py        (generate_melody)  *)
(*   chords  - Quantum Music/qumusic_generate_chords.py (generate_and_sync)*)
(*   multi   - qmusic_generate_chords_Multitrack.py     (generate_and_sync *)
(*             driven by on_space_pressed)                                 *)
(* together with get_quantum_random_numbers (the rejection sampler) and    *)
(* AbletonOSCClient.add_notes.                                             *)
(*                                                                         *)
(* Time is counted in ticks of a quarter beat (0.25), so that every        *)
(* duration of the source (0, 0.5, 0.75, 1.0, 2.0, 4.0, 8.0) is an integer.*)
(* All of them are dyadic rationals: the float sums of the source are      *)
(* exact, and the integer arithmetic below is the same arithmetic.         *)
(***************************************************************************)
EXTENDS Integers, Sequences, FiniteSets, TLC

VARIABLES
    mode,               \* which script / function is running
    pc,                 \* position in it
    \* ---- get_quantum_random_numbers
    count,              \* argument
    max_value,          \* argument
    num_qubits,         \* local
    generated_numbers,  \* local
    batch_size,         \* local: shots of the last sim.run
    shots_left,         \* entries of `memory` the for loop has not visited yet
    invoked,            \* whether sim.run was called at all
    result,             \* what the call produced: [kind, value]
    \* ---- generate_melody / generate_and_sync
    bar,                \* chords of the progression already taken by the outer for
    slot,               \* iterations of the inner for already done in this bar
    chord,              \* the chord of the current bar
    chord_time,         \* local of the variable-duration loop
    current_time,       \* local
    q_counter,          \* local: cursor into the random streams
    notes_for_osc,      \* the note list; a generator's entries are kept by position
    last_note,          \* the tuple a generator appended to notes_for_osc last
    bar_count,          \* notes appended in the current bar
    bar_sum,            \* sum of their durations
    bar_start,          \* current_time when the current bar began
    closed,             \* [count, sum, start] of the bar just completed, until the next begins
    \* ---- the try block: OSC traffic of one run
    track_index,        \* argument of generate_and_sync / TRACK_INDEX
    sent,               \* messages handed to client.send_message, in order
    failed,             \* the except branch was taken
    sent_k,             \* notes the for loop of add_notes has sent
    \* ---- on_space_pressed
    current_track_index,\* the global
    presses,            \* space-bar events delivered so far
    runs                \* per completed handler invocation: [track, failed]

vars == << mode, pc, count, max_value, num_qubits, generated_numbers, batch_size,
           shots_left, invoked, result, bar, slot, chord, chord_time, current_time,
           q_counter, notes_for_osc, last_note, bar_count, bar_sum, bar_start,
           closed, track_index, sent, failed, sent_k, current_track_index, presses,
           runs >>

samplerVars == << count, max_value, num_qubits, generated_numbers, batch_size,
                  shots_left, invoked, result >>
genVars == << bar, slot, chord, chord_time, current_time, q_counter, notes_for_osc,
              last_note, bar_count, bar_sum, bar_start, closed >>
oscVars == << track_index, sent, failed, sent_k >>
keyVars == << current_track_index, presses, runs >>

None == << >>

(***************************************************************************)
(* Bounds of the model.                                                    *)
(***************************************************************************)
\* largest `count` passed to get_quantum_random_numbers
MaxCount == 3
\* largest `max_value` passed to get_quantum_random_numbers
MaxValue == 5
\* bars per clip of the chords and multitrack scripts (LENGTH = 4 in the source)
MaxBars == 2
\* notes per bar of the multitrack script (NOTES_PER_CHORD = 16 in the source)
MaxNotesPerBar == 2
\* space-bar presses in one session
MaxPresses == 2
\* longest note list handed to add_notes on its own
MaxNotes == 2

(***************************************************************************)
(* get_quantum_random_numbers(count, max_value)                            *)
(***************************************************************************)
RECURSIVE Pow2(_)
Pow2(n) == IF n = 0 THEN 1 ELSE 2 * Pow2(n - 1)

\* math.ceil(math.log2(n)) for n >= 1: the least k with 2^k >= n
RECURSIVE CeilLog2From(_, _)
CeilLog2From(n, k) == IF Pow2(k) >= n THEN k ELSE CeilLog2From(n, k + 1)
CeilLog2(n) == CeilLog2From(n, 0)

\* [0] * count
Zeros(n) == [i \in 1..n |-> 0]

\* one entry of `memory`: int(bitstring, 2) of a num_qubits-bit measurement
Draws(nq) == 0..(Pow2(nq) - 1)

\* mutation: the batch is sized from count, not from the remaining deficit
BatchSizeDoubleCount(c, generated) == c * 2
\* (count - len(generated_numbers)) * 2
BatchSize(c, generated) == (c - Len(generated)) * 2

\* mutation: <= for <
AcceptedInclusive(val, mx) == val <= mx
\* if val < max_value
Accepted(val, mx) == val < mx

Return(v) == [kind |-> "return", value |-> v]

SamplerInit ==
    /\ mode = "sampler"
    /\ pc = "entry"
    /\ count \in 0..MaxCount
    /\ max_value \in (-1)..MaxValue
    /\ num_qubits = 0
    /\ generated_numbers = << >>
    /\ batch_size = 0
    /\ shots_left = 0
    /\ invoked = FALSE
    /\ result = [kind |-> "none", value |-> << >>]
    /\ bar = 0 /\ slot = 0 /\ chord = None /\ chord_time = 0 /\ current_time = 0
    /\ q_counter = 0 /\ notes_for_osc = << >> /\ last_note = None
    /\ bar_count = 0 /\ bar_sum = 0 /\ bar_start = 0 /\ closed = None
    /\ track_index = 0 /\ sent = << >> /\ failed = FALSE /\ sent_k = 0
    /\ current_track_index = 0 /\ presses = 0 /\ runs = << >>

\* lines 79-83: the two early returns, then the set-up of the loop
CheckArguments ==
    /\ mode = "sampler" /\ pc = "entry"
    /\ IF max_value <= 0
         THEN /\ result' = Return(<< >>)
              /\ pc' = "returned"
              /\ UNCHANGED << num_qubits, generated_numbers >>
         ELSE IF max_value = 1
         THEN /\ result' = Return(Zeros(count))
              /\ pc' = "returned"
              /\ UNCHANGED << num_qubits, generated_numbers >>
         ELSE /\ num_qubits' = CeilLog2(max_value)
              /\ generated_numbers' = << >>
              /\ pc' = "while"
              /\ UNCHANGED result
    /\ UNCHANGED << mode, count, max_value, batch_size, shots_left, invoked >>
    /\ UNCHANGED << genVars, oscVars, keyVars >>

\* line 89, true: one more batch of batch_size shots is run
RequestBatch ==
    /\ mode = "sampler" /\ pc = "while"
    /\ Len(generated_numbers) < count
    /\ batch_size' = BatchSize(count, generated_numbers)
    /\ shots_left' = batch_size'
    /\ invoked' = TRUE
    /\ pc' = "for"
    /\ UNCHANGED << mode, count, max_value, num_qubits, generated_numbers, result >>
    /\ UNCHANGED << genVars, oscVars, keyVars >>

\* line 89, false, and line 107
ReturnNumbers ==
    /\ mode = "sampler" /\ pc = "while"
    /\ ~(Len(generated_numbers) < count)
    /\ result' = Return(generated_numbers)
    /\ pc' = "returned"
    /\ UNCHANGED << mode, count, max_value, num_qubits, generated_numbers,
                    batch_size, shots_left, invoked >>
    /\ UNCHANGED << genVars, oscVars, keyVars >>

\* lines 100-105 with val < max_value: append, and break when count is reached
AcceptDraw ==
    /\ mode = "sampler" /\ pc = "for"
    /\ shots_left > 0
    /\ \E val \in Draws(num_qubits) :
        /\ Accepted(val, max_value)
        /\ generated_numbers' = Append(generated_numbers, val)
    /\ shots_left' = shots_left - 1
    /\ pc' = IF Len(generated_numbers') = count THEN "while" ELSE "for"
    /\ UNCHANGED << mode, count, max_value, num_qubits, batch_size, invoked, result >>
    /\ UNCHANGED << genVars, oscVars, keyVars >>

\* lines 100-102 with val >= max_value: the draw is dropped
RejectDraw ==
    /\ mode = "sampler" /\ pc = "for"
    /\ shots_left > 0
    /\ \E val \in Draws(num_qubits) : ~Accepted(val, max_value)
    /\ shots_left' = shots_left - 1
    /\ UNCHANGED << mode, pc, count, max_value, num_qubits, generated_numbers,
                    batch_size, invoked, result >>
    /\ UNCHANGED << genVars, oscVars, keyVars >>

\* line 100: `memory` is exhausted, back to the while
BatchExhausted ==
    /\ mode = "sampler" /\ pc = "for"
    /\ shots_left = 0
    /\ pc' = "while"
    /\ UNCHANGED << mode, count, max_value, num_qubits, generated_numbers,
                    batch_size, shots_left, invoked, result >>
    /\ UNCHANGED << genVars, oscVars, keyVars >>

SamplerNext ==
    \/ CheckArguments
    \/ RequestBatch
    \/ ReturnNumbers
    \/ AcceptDraw
    \/ RejectDraw
    \/ BatchExhausted

SamplerSpec == SamplerInit /\ [][SamplerNext]_vars

\* The simulator keeps answering, and a uniform measurement of num_qubits qubits
\* yields a value below max_value with probability > 1/2 on every shot.
SamplerFairSpec ==
    SamplerInit /\ [][SamplerNext]_vars /\ WF_vars(SamplerNext) /\ SF_vars(AcceptDraw)

(***************************************************************************)
(* Configuration of the three scripts (durations in ticks of 0.25 beat)    *)
(***************************************************************************)
\* qumusic_generate.py: the bars are the four chords of the table, in order
CHORDS_Melody == << <<60, 64, 67>>, <<55, 59, 62>>, <<57, 60, 64>>, <<53, 57, 60>> >>
NOTES_PER_CHORD_Melody == 4
\* the duration 1 (1.0 beat) of every note of generate_melody
NOTE_DURATION_Melody == 4
total_notes_needed_Melody == Len(CHORDS_Melody) * NOTES_PER_CHORD_Melody

\* the chord table of qumusic_generate_chords.py and of the multitrack script
CHORDS == << <<60, 64, 67>>, <<55, 59, 62>>, <<57, 60, 64>>,
             <<53, 57, 60>>, <<52, 55, 59>>, <<50, 53, 57>> >>
TRACK_INDEX == 0
INITIAL_TRACK_INDEX == 0
CLIP_INDEX == 0
VELOCITY == 100
\* number of bars per clip: 4 in both scripts, MaxBars here
LENGTH == MaxBars

\* qumusic_generate_chords.py: [0.5, 1.0, 2.0] and 4.0 beats
DURATIONS_Chords == << 2, 4, 8 >>
CHORD_DURATION_Chords == 16

RECURSIVE MinOf(_)
MinOf(seq) == IF Len(seq) = 1 THEN seq[1]
              ELSE LET m == MinOf(Tail(seq)) IN IF seq[1] < m THEN seq[1] ELSE m

\* int(num_chords_to_play * (CHORD_DURATION / min(DURATIONS))) + 10: the quotient is exact
max_total_notes == LENGTH * (CHORD_DURATION_Chords \div MinOf(DURATIONS_Chords)) + 10

\* qmusic_generate_chords_Multitrack.py: [0, 0.5, 0.75, 1.0, 2.0]; 16 notes per bar of
\* 8.0 beats, that is 0.5 beat (2 ticks) of bar per note
NOTES_PER_CHORD == MaxNotesPerBar
DURATIONS == << 0, 2, 3, 4, 8 >>
CHORD_DURATION == 2 * NOTES_PER_CHORD
\* mutation: one entry per bar, the notes per bar left out
total_notes_needed_Bars == LENGTH
\* LENGTH * NOTES_PER_CHORD
total_notes_needed == LENGTH * NOTES_PER_CHORD

\* chord + [chord[0] + 12]
ExtendedChord(c) == c \o << c[1] + 12 >>

\* Lengths of the random streams: get_quantum_random_numbers returns exactly the
\* count asked for (C1_ExactCountInRange), get_quantum_indices one index per shot.
PitchStreamLen(m) ==
    CASE m = "melody" -> total_notes_needed_Melody
      [] m = "chords" -> max_total_notes
      [] m = "multi"  -> total_notes_needed
DurationStreamLen(m) ==
    CASE m = "chords" -> max_total_notes
      [] m = "multi"  -> total_notes_needed

\* a subscript the list accepts: seq[i] with 0 <= i < len(seq)
ValidIndex(i, len) == i >= 0 /\ i < len

\* values of one entry of a stream sampled with max_value mx
Indices(mx) == 0..(mx - 1)

\* mutation: the drawn duration is used as it is
FitNoClamp(ct, duration) == duration
\* lines 149-158 of qumusic_generate_chords.py: the duration to use for a drawn
\* duration, or -1 for `break`
Fit(ct, duration) ==
    IF ct + duration > CHORD_DURATION_Chords
    THEN LET remaining == CHORD_DURATION_Chords - ct IN
         IF \E i \in 1..Len(DURATIONS_Chords) : DURATIONS_Chords[i] = remaining
         THEN remaining
         ELSE IF remaining > 0 THEN remaining ELSE -1
    ELSE duration

\* the bar that has just been completed
CloseBar == [count |-> bar_count, sum |-> bar_sum, start |-> bar_start]

(***************************************************************************)
(* One run starts here.  The streams are read lazily: an entry is chosen   *)
(* when the loop reads it (every entry is read at most once unless the     *)
(* cursor is recycled).                                                    *)
(***************************************************************************)
Init ==
    /\ mode \in {"melody", "chords", "multi"}
    /\ pc = IF mode = "multi" THEN "idle" ELSE "bar"
    /\ count = 0 /\ max_value = 0 /\ num_qubits = 0 /\ generated_numbers = << >>
    /\ batch_size = 0 /\ shots_left = 0 /\ invoked = FALSE
    /\ result = [kind |-> "none", value |-> << >>]
    /\ bar = 0 /\ slot = 0 /\ chord = None /\ chord_time = 0 /\ current_time = 0
    /\ q_counter = 0 /\ notes_for_osc = << >> /\ last_note = None
    /\ bar_count = 0 /\ bar_sum = 0 /\ bar_start = 0 /\ closed = None
    /\ track_index = TRACK_INDEX /\ sent = << >> /\ failed = FALSE /\ sent_k = 0
    /\ current_track_index = INITIAL_TRACK_INDEX /\ presses = 0 /\ runs = << >>

\* notes_for_osc.append((pitch, current_time, duration, 100)), with the time step
AppendNote(pitch, duration) ==
    /\ notes_for_osc' = Append(notes_for_osc, << Len(notes_for_osc) + 1 >>)
    /\ last_note' = << pitch, current_time, duration, VELOCITY >>
    /\ current_time' = current_time + duration
    /\ bar_count' = bar_count + 1
    /\ bar_sum' = bar_sum + duration

\* ---- generate_melody, lines 91-105
MelodyNextChord ==
    /\ mode = "melody" /\ pc = "bar"
    /\ bar < Len(CHORDS_Melody)
    /\ chord' = ExtendedChord(CHORDS_Melody[bar + 1])
    /\ bar' = bar + 1
    /\ slot' = 0
    /\ bar_count' = 0 /\ bar_sum' = 0 /\ bar_start' = current_time
    /\ closed' = None
    /\ pc' = "note"
    /\ UNCHANGED << mode, chord_time, current_time, q_counter, notes_for_osc,
                    last_note >>
    /\ UNCHANGED << samplerVars, oscVars, keyVars >>

MelodyNote ==
    /\ mode = "melody" /\ pc = "note"
    /\ slot < NOTES_PER_CHORD_Melody
    /\ IF ValidIndex(q_counter, PitchStreamLen(mode))
       THEN /\ \E note_index \in Indices(4) :
                  AppendNote(chord[note_index + 1], NOTE_DURATION_Melody)
            /\ q_counter' = q_counter + 1
            /\ slot' = slot + 1
            /\ pc' = "note"
       ELSE /\ pc' = "IndexError"
            /\ UNCHANGED << notes_for_osc, last_note, current_time, bar_count,
                            bar_sum, q_counter, slot >>
    /\ UNCHANGED << mode, bar, chord, chord_time, bar_start, closed >>
    /\ UNCHANGED << samplerVars, oscVars, keyVars >>

MelodyEndBar ==
    /\ mode = "melody" /\ pc = "note"
    /\ slot = NOTES_PER_CHORD_Melody
    /\ closed' = << CloseBar >>
    /\ pc' = "bar"
    /\ UNCHANGED << mode, bar, slot, chord, chord_time, current_time, q_counter,
                    notes_for_osc, last_note, bar_count, bar_sum, bar_start >>
    /\ UNCHANGED << samplerVars, oscVars, keyVars >>

\* ---- generate_and_sync of qumusic_generate_chords.py, lines 133-169
ChordsNextChord ==
    /\ mode = "chords" /\ pc = "bar"
    /\ bar < LENGTH
    /\ \E chord_index \in Indices(Len(CHORDS)) :
          chord' = ExtendedChord(CHORDS[chord_index + 1])
    /\ bar' = bar + 1
    /\ chord_time' = 0
    /\ bar_count' = 0 /\ bar_sum' = 0 /\ bar_start' = current_time
    /\ closed' = None
    /\ pc' = "note"
    /\ UNCHANGED << mode, slot, current_time, q_counter, notes_for_osc, last_note >>
    /\ UNCHANGED << samplerVars, oscVars, keyVars >>

\* one iteration of `while chord_time < CHORD_DURATION`
ChordsNote ==
    /\ mode = "chords" /\ pc = "note"
    /\ chord_time < CHORD_DURATION_Chords
    /\ LET cursor == IF q_counter >= PitchStreamLen(mode) THEN 0 ELSE q_counter IN
       IF ~ValidIndex(cursor, DurationStreamLen(mode))
       THEN /\ pc' = "IndexError"
            /\ q_counter' = cursor
            /\ UNCHANGED << notes_for_osc, last_note, current_time, bar_count,
                            bar_sum, chord_time, closed >>
       ELSE \E dur_index \in Indices(Len(DURATIONS_Chords)) :
            LET duration == Fit(chord_time, DURATIONS_Chords[dur_index + 1]) IN
            IF duration = -1
            THEN /\ pc' = "bar"
                 /\ closed' = << CloseBar >>
                 /\ q_counter' = cursor
                 /\ UNCHANGED << notes_for_osc, last_note, current_time, bar_count,
                                 bar_sum, chord_time >>
            ELSE IF ~ValidIndex(cursor, PitchStreamLen(mode))
            THEN /\ pc' = "IndexError"
                 /\ q_counter' = cursor
                 /\ UNCHANGED << notes_for_osc, last_note, current_time, bar_count,
                                 bar_sum, chord_time, closed >>
            ELSE /\ \E note_index \in Indices(4) :
                       AppendNote(chord[note_index + 1], duration)
                 /\ chord_time' = chord_time + duration
                 /\ q_counter' = cursor + 1
                 /\ pc' = "note"
                 /\ UNCHANGED closed
    /\ UNCHANGED << mode, bar, slot, chord, bar_start >>
    /\ UNCHANGED << samplerVars, oscVars, keyVars >>

\* the while condition is false: the bar is full
ChordsEndBar ==
    /\ mode = "chords" /\ pc = "note"
    /\ ~(chord_time < CHORD_DURATION_Chords)
    /\ closed' = << CloseBar >>
    /\ pc' = "bar"
    /\ UNCHANGED << mode, bar, slot, chord, chord_time, current_time, q_counter,
                    notes_for_osc, last_note, bar_count, bar_sum, bar_start >>
    /\ UNCHANGED << samplerVars, oscVars, keyVars >>

\* ---- generate_and_sync of the multitrack script, lines 132-150
MultiNextChord ==
    /\ mode = "multi" /\ pc = "bar"
    /\ bar < LENGTH
    /\ \E chord_index \in Indices(Len(CHORDS)) :
          chord' = ExtendedChord(CHORDS[chord_index + 1])
    /\ bar' = bar + 1
    /\ slot' = 0
    /\ bar_count' = 0 /\ bar_sum' = 0 /\ bar_start' = current_time
    /\ closed' = None
    /\ pc' = "note"
    /\ UNCHANGED << mode, chord_time, current_time, q_counter, notes_for_osc,
                    last_note >>
    /\ UNCHANGED << samplerVars, oscVars, keyVars >>

MultiNote ==
    /\ mode = "multi" /\ pc = "note"
    /\ slot < NOTES_PER_CHORD
    /\ IF /\ ValidIndex(q_counter, PitchStreamLen(mode))
          /\ ValidIndex(q_counter, DurationStreamLen(mode))
       THEN /\ \E note_index \in Indices(4), dur_index \in Indices(Len(DURATIONS)) :
                  AppendNote(chord[note_index + 1], DURATIONS[dur_index + 1])
            /\ q_counter' = q_counter + 1
            /\ slot' = slot + 1
            /\ pc' = "note"
       ELSE /\ pc' = "IndexError"
            /\ UNCHANGED << notes_for_osc, last_note, current_time, bar_count,
                            bar_sum, q_counter, slot >>
    /\ UNCHANGED << mode, bar, chord, chord_time, bar_start, closed >>
    /\ UNCHANGED << samplerVars, oscVars, keyVars >>

MultiEndBar ==
    /\ mode = "multi" /\ pc = "note"
    /\ slot = NOTES_PER_CHORD
    /\ closed' = << CloseBar >>
    /\ pc' = "bar"
    /\ UNCHANGED << mode, bar, slot, chord, chord_time, current_time, q_counter,
                    notes_for_osc, last_note, bar_count, bar_sum, bar_start >>
    /\ UNCHANGED << samplerVars, oscVars, keyVars >>

(***************************************************************************)
(* The try block: AbletonOSCClient and its messages.  send_message hands   *)
(* one datagram to the socket; it either returns or raises, and a raise    *)
(* leaves the try block for the except clause.                             *)
(***************************************************************************)
\* bars the outer for loops over
Bars(m) == IF m = "melody" THEN Len(CHORDS_Melody) ELSE LENGTH

\* the last argument of /live/clip/add/notes: 0 in qumusic_generate.py, False elsewhere
Mute(m) == IF m = "melody" THEN 0 ELSE FALSE

FireAddress(m) == IF m = "melody" THEN "/live/play/clipslot" ELSE "/live/clip_slot/fire"

\* where control goes when the try statement is left
AfterTry(m) == IF m = "multi" THEN "handler" ELSE "done"

\* mutation: every variant clears
ClearsFirstAlways(m) == TRUE
\* add_notes of qumusic_generate.py clears the clip before it adds
ClearsFirst(m) == m = "melody"

\* where add_notes begins
AddNotesEntry(m) == IF ClearsFirst(m) THEN "delete" ELSE "add"

\* pitch, start, duration, velocity = note, and the message built from them.  A
\* generator's note is kept as the 1-tuple of its position in notes_for_osc.
AddNotesMessage(m, t, c, note) == << "/live/clip/add/notes", t, c >> \o note \o << Mute(m) >>

\* mutation: the list is walked from its end
NoteToSendReversed(k) == notes_for_osc[Len(notes_for_osc) - k]
\* `for note in notes`: the note of the iteration after k iterations
NoteToSend(k) == notes_for_osc[k + 1]

\* the outer for is exhausted (generate_melody writes its MIDI file here, which is
\* not modelled).  Of the locals only notes_for_osc and current_time are read
\* afterwards; the others, and the per-bar accounts, are dropped here.
EndGeneration ==
    /\ mode \in {"melody", "chords", "multi"} /\ pc = "bar"
    /\ bar = Bars(mode)
    /\ pc' = "osc"
    /\ slot' = 0 /\ chord' = None /\ chord_time' = 0 /\ q_counter' = 0
    /\ last_note' = None
    /\ bar_count' = 0 /\ bar_sum' = 0 /\ bar_start' = 0 /\ closed' = None
    /\ UNCHANGED << mode, bar, current_time, notes_for_osc >>
    /\ UNCHANGED << samplerVars, oscVars, keyVars >>

\* osc = AbletonOSCClient()
OscConnect ==
    /\ pc = "osc"
    /\ pc' = IF mode = "melody" THEN AddNotesEntry(mode) ELSE "create"
    /\ UNCHANGED << mode, genVars, samplerVars, oscVars, keyVars >>

\* qumusic_generate_chords.py line 180: the clip is as long as the melody
ChordsCreateClip ==
    /\ mode = "chords" /\ pc = "create"
    /\ sent' = Append(sent, << "/live/clip_slot/create_clip", TRACK_INDEX, CLIP_INDEX,
                               current_time >>)
    /\ pc' = AddNotesEntry(mode)
    /\ UNCHANGED << mode, genVars, samplerVars, track_index, failed, sent_k, keyVars >>

\* AbletonOSCClient.create_clip of the multitrack script
MultiCreateClip ==
    /\ mode = "multi" /\ pc = "create"
    /\ sent' = Append(sent, << "/live/clip_slot/create_clip", track_index, CLIP_INDEX,
                               LENGTH * CHORD_DURATION >>)
    /\ pc' = AddNotesEntry(mode)
    /\ UNCHANGED << mode, genVars, samplerVars, track_index, failed, sent_k, keyVars >>

\* add_notes of qumusic_generate.py, line 43: the clip's notes are cleared first
DeleteNotes ==
    /\ pc = "delete"
    /\ sent' = Append(sent, << "/live/clip/delete/notes", track_index, CLIP_INDEX >>)
    /\ pc' = "add"
    /\ UNCHANGED << mode, genVars, samplerVars, track_index, failed, sent_k, keyVars >>

\* add_notes: one iteration of `for note in notes`
AddNote ==
    /\ pc = "add"
    /\ sent_k < Len(notes_for_osc)
    /\ sent' = Append(sent, AddNotesMessage(mode, track_index, CLIP_INDEX,
                                            NoteToSend(sent_k)))
    /\ sent_k' = sent_k + 1
    /\ UNCHANGED << mode, pc, genVars, samplerVars, track_index, failed, keyVars >>

\* add_notes: the for is exhausted
AddNotesReturn ==
    /\ pc = "add"
    /\ sent_k = Len(notes_for_osc)
    /\ pc' = "added"
    /\ UNCHANGED << mode, genVars, samplerVars, oscVars, keyVars >>

\* fire_clip
FireClip ==
    /\ pc = "added"
    /\ sent' = Append(sent, << FireAddress(mode), track_index, CLIP_INDEX >>)
    /\ pc' = AfterTry(mode)
    /\ UNCHANGED << mode, genVars, samplerVars, track_index, failed, sent_k, keyVars >>

\* a send_message of add_notes raises
AddNotesRaises ==
    /\ \/ pc = "delete"
       \/ pc = "add" /\ sent_k < Len(notes_for_osc)
    /\ failed' = TRUE
    /\ pc' = "except"
    /\ UNCHANGED << mode, genVars, samplerVars, track_index, sent, sent_k, keyVars >>

\* the constructor, the create_clip send or the fire send raises
CallRaises ==
    /\ pc \in {"osc", "create", "added"}
    /\ failed' = TRUE
    /\ pc' = "except"
    /\ UNCHANGED << mode, genVars, samplerVars, track_index, sent, sent_k, keyVars >>

\* except Exception as e: two prints
Except ==
    /\ pc = "except"
    /\ pc' = AfterTry(mode)
    /\ UNCHANGED << mode, genVars, samplerVars, oscVars, keyVars >>

(***************************************************************************)
(* The multitrack script's keyboard hook.  The keyboard library delivers   *)
(* the key events to on_space_pressed one at a time, on one thread: an     *)
(* event that arrives while a run is in progress waits for it to return.   *)
(* No step of a run reads the pending events, so a key press commutes with *)
(* every step of the run: it is taken while the hook is idle with nothing  *)
(* pending, or while the handler is between generate_and_sync and its own  *)
(* last lines.                                                             *)
(***************************************************************************)
\* mutation: the selector stays when the run ended in the except clause
NextTrackUnlessFailed(t) == IF failed THEN t ELSE t + 1
\* current_track_index += 1
NextTrack(t) == t + 1

\* the space bar goes down
PressSpace ==
    /\ mode = "multi"
    /\ \/ pc = "handler"
       \/ pc = "idle" /\ Len(runs) = presses
    /\ presses < MaxPresses
    /\ presses' = presses + 1
    /\ UNCHANGED << mode, pc, genVars, samplerVars, oscVars, current_track_index, runs >>

\* on_space_pressed is entered and calls generate_and_sync(current_track_index),
\* which runs up to its outer for (the three sampler calls are taken to return)
OnSpacePressed ==
    /\ mode = "multi" /\ pc = "idle"
    /\ Len(runs) < presses
    /\ track_index' = current_track_index
    /\ bar' = 0 /\ slot' = 0 /\ chord' = None /\ chord_time' = 0 /\ current_time' = 0
    /\ q_counter' = 0 /\ notes_for_osc' = << >> /\ last_note' = None
    /\ bar_count' = 0 /\ bar_sum' = 0 /\ bar_start' = 0 /\ closed' = None
    /\ sent' = << >> /\ failed' = FALSE /\ sent_k' = 0
    /\ pc' = "bar"
    /\ UNCHANGED << mode, samplerVars, keyVars >>

\* generate_and_sync has returned (its locals are gone): lines 180-182
OnSpaceReturn ==
    /\ mode = "multi" /\ pc = "handler"
    /\ current_track_index' = NextTrack(current_track_index)
    /\ runs' = Append(runs, [track |-> track_index, failed |-> failed])
    /\ bar' = 0 /\ slot' = 0 /\ chord' = None /\ chord_time' = 0 /\ current_time' = 0
    /\ q_counter' = 0 /\ notes_for_osc' = << >> /\ last_note' = None
    /\ bar_count' = 0 /\ bar_sum' = 0 /\ bar_start' = 0 /\ closed' = None
    /\ pc' = "idle"
    /\ UNCHANGED << mode, samplerVars, oscVars, presses >>

Next ==
    \/ MelodyNextChord
    \/ MelodyNote
    \/ MelodyEndBar
    \/ ChordsNextChord
    \/ ChordsNote
    \/ ChordsEndBar
    \/ MultiNextChord
    \/ MultiNote
    \/ MultiEndBar
    \/ EndGeneration
    \/ OscConnect
    \/ ChordsCreateClip
    \/ MultiCreateClip
    \/ DeleteNotes
    \/ AddNote
    \/ AddNotesReturn
    \/ FireClip
    \/ AddNotesRaises
    \/ CallRaises
    \/ Except
    \/ PressSpace
    \/ OnSpacePressed
    \/ OnSpaceReturn

Spec == Init /\ [][Next]_vars

(***************************************************************************)
(* add_notes called on its own, on any short list of notes                 *)
(***************************************************************************)
NoteSet == { << 60, 0, 4, 100 >>, << 64, 0, 0, 100 >>, << 67, 4, 2, 100 >>,
             << 72, 6, 8, 100 >> }
NoteLists == UNION { [1..n -> NoteSet] : n \in 0..MaxNotes }

ClientInit ==
    /\ mode \in {"melody", "chords", "multi"}
    /\ pc = AddNotesEntry(mode)
    /\ notes_for_osc \in NoteLists
    /\ track_index \in {0, 1}
    /\ count = 0 /\ max_value = 0 /\ num_qubits = 0 /\ generated_numbers = << >>
    /\ batch_size = 0 /\ shots_left = 0 /\ invoked = FALSE
    /\ result = [kind |-> "none", value |-> << >>]
    /\ bar = 0 /\ slot = 0 /\ chord = None /\ chord_time = 0 /\ current_time = 0
    /\ q_counter = 0 /\ last_note = None
    /\ bar_count = 0 /\ bar_sum = 0 /\ bar_start = 0 /\ closed = None
    /\ sent = << >> /\ failed = FALSE /\ sent_k = 0
    /\ current_track_index = INITIAL_TRACK_INDEX /\ presses = 0 /\ runs = << >>

ClientNext ==
    \/ DeleteNotes
    \/ AddNote
    \/ AddNotesReturn
    \/ AddNotesRaises

ClientSpec == ClientInit /\ [][ClientNext]_vars

(***************************************************************************)
(* Claims about the generators, the OSC traffic and the keyboard hook      *)
(***************************************************************************)
CreateAddress == "/live/clip_slot/create_clip"
AddAddress == "/live/clip/add/notes"
IsAdd(m) == m[1] = AddAddress
Positions(addr) == { i \in 1..Len(sent) : sent[i][1] = addr }
FirePositions == Positions("/live/clip_slot/fire") \cup Positions("/live/play/clipslot")
\* the add-notes messages sent so far are those of the first k notes, in order
AddsArePrefix(k) ==
    /\ k <= Len(notes_for_osc)
    /\ SelectSeq(sent, IsAdd) =
         [i \in 1..k |-> AddNotesMessage(mode, track_index, CLIP_INDEX, notes_for_osc[i])]
RunEnded == pc \in {"done", "handler"}

\* C2: in the variable-duration generator the durations of the notes placed in
\* one bar sum to at most CHORD_DURATION, and every emitted note has a strictly
\* positive duration.
C2_BarNeverOverfull ==
    mode = "chords" =>
        /\ bar_sum <= CHORD_DURATION_Chords
        /\ closed # << >> => closed[1].sum <= CHORD_DURATION_Chords
        /\ last_note # None => last_note[3] > 0

\* a bar filled by a note clamped to a remainder that is no palette entry (1.5 beats)
C2_Witness ==
    /\ mode = "chords"
    /\ last_note # None /\ last_note[3] = 6
    /\ bar_sum = CHORD_DURATION_Chords

\* C3 (as claimed): in generate_melody and in the multitrack generate_and_sync
\* every bar receives exactly NOTES_PER_CHORD notes whose durations sum to exactly
\* the bar duration, so that each bar starts on a multiple of the bar duration.
C3_BarsExact ==
    /\ (mode = "melody" /\ closed # << >>) =>
          /\ closed[1].count = NOTES_PER_CHORD_Melody
          /\ closed[1].sum = NOTES_PER_CHORD_Melody * NOTE_DURATION_Melody
          /\ closed[1].start % (NOTES_PER_CHORD_Melody * NOTE_DURATION_Melody) = 0
    /\ (mode = "multi" /\ closed # << >>) =>
          /\ closed[1].count = NOTES_PER_CHORD
          /\ closed[1].sum = CHORD_DURATION
          /\ closed[1].start % CHORD_DURATION = 0

\* C4 (as claimed): a slot whose duration index selects the palette entry 0 emits
\* no note while q_counter advances by one, so no note of duration 0 is ever
\* appended to notes_for_osc.
C4_ZeroDurationSkipped ==
    mode = "multi" =>
        /\ last_note # None => last_note[3] # 0
        /\ pc = "note" => q_counter = (bar - 1) * NOTES_PER_CHORD + slot

\* C5 (as claimed): in a run of the chords or multitrack generator the create_clip
\* message is sent at most once and before the first add-notes message, the
\* add-notes messages are sent one per note in the order of the note sequence, and
\* the fire message is sent exactly once, after the last add-notes message.
C5_FireExactlyOnce ==
    (mode \in {"chords", "multi"} /\ RunEnded) =>
        /\ Cardinality(Positions(CreateAddress)) <= 1
        /\ \A c \in Positions(CreateAddress), a \in Positions(AddAddress) : c < a
        /\ AddsArePrefix(Len(notes_for_osc))
        /\ Cardinality(FirePositions) = 1
        /\ \A f \in FirePositions, a \in Positions(AddAddress) : a < f

\* C5 (amended): the create_clip message is sent at most once and before the first
\* add-notes message; the add-notes messages sent are those of a prefix of the note
\* sequence, in order; the fire message is sent at most once, last, and only after
\* the add-notes message of every note; a run in which no transport call raised has
\* sent create_clip once, one add-notes message per note and fire once.
C5_OrderedPrefix ==
    (mode \in {"chords", "multi"} /\ pc # "idle") =>
        /\ Cardinality(Positions(CreateAddress)) <= 1
        /\ \A c \in Positions(CreateAddress), a \in Positions(AddAddress) : c < a
        /\ AddsArePrefix(Cardinality(Positions(AddAddress)))
        /\ Cardinality(FirePositions) <= 1
        /\ \A f \in FirePositions :
              /\ f = Len(sent)
              /\ Cardinality(Positions(AddAddress)) = Len(notes_for_osc)
        /\ (RunEnded /\ ~failed) =>
              /\ Cardinality(Positions(CreateAddress)) = 1
              /\ Cardinality(Positions(AddAddress)) = Len(notes_for_osc)
              /\ Cardinality(FirePositions) = 1

\* a multitrack run that ended in the except clause after some, not all, notes
C5_Witness ==
    /\ mode = "multi" /\ pc = "handler" /\ failed
    /\ sent_k > 0 /\ sent_k < Len(notes_for_osc)
    /\ Len(sent) = sent_k + 1

\* C6 (as claimed): for every client variant add_notes sends as many messages as
\* it is given notes: none, without raising, for the empty sequence.
C6_OneMessagePerNote ==
    /\ pc = "added" => Len(sent) = Len(notes_for_osc)
    /\ notes_for_osc = << >> => (sent = << >> /\ pc # "except")

\* C6 (amended): add_notes, when it returns, has sent one add-notes message per
\* note, in order; the variants of qumusic_generate_chords.py and of the multitrack
\* script send nothing else (nothing at all, and no raise, for the empty sequence);
\* the variant of qumusic_generate.py sends one delete-notes message first, also
\* for the empty sequence.
C6_AddMessagePerNote ==
    /\ pc = "added" =>
          /\ AddsArePrefix(Len(notes_for_osc))
          /\ Len(sent) = Len(notes_for_osc) + (IF mode = "melody" THEN 1 ELSE 0)
          /\ mode = "melody" => sent[1][1] = "/live/clip/delete/notes"
    /\ (mode # "melody" /\ notes_for_osc = << >>) => (sent = << >> /\ pc # "except")

\* add_notes of qumusic_generate.py returned from a call with no notes
C6_Witness ==
    /\ mode = "melody" /\ pc = "added"
    /\ notes_for_osc = << >>
    /\ Len(sent) = 1

\* C7: no read of a random stream is out of range: whenever a generator is about to
\* read, the cursor it will use is a valid index of each stream it reads, so no run
\* ends in IndexError; in the variable-duration generator the cursor stays below
\* the stream length (it would be reset to 0 before the read otherwise).
C7_ReadsInBounds ==
    /\ pc # "IndexError"
    /\ (mode = "melody" /\ pc = "note" /\ slot < NOTES_PER_CHORD_Melody) =>
          ValidIndex(q_counter, PitchStreamLen(mode))
    /\ (mode = "multi" /\ pc = "note" /\ slot < NOTES_PER_CHORD) =>
          /\ ValidIndex(q_counter, PitchStreamLen(mode))
          /\ ValidIndex(q_counter, DurationStreamLen(mode))
    /\ (mode = "chords" /\ pc = "note" /\ chord_time < CHORD_DURATION_Chords) =>
          /\ ValidIndex(q_counter, PitchStreamLen(mode))
          /\ ValidIndex(q_counter, DurationStreamLen(mode))

\* the multitrack generator has read the last entry of its streams
C7_Witness ==
    /\ mode = "multi" /\ pc = "note"
    /\ q_counter = total_notes_needed
    /\ Len(notes_for_osc) = total_notes_needed

\* C8: the k-th space-bar trigger (k = 0, 1, ...) generates for track
\* INITIAL_TRACK_INDEX + k, the selector is advanced by exactly 1 after each run,
\* also after a run whose transport calls failed, and no two runs share a track.
C8_TrackPerRun ==
    mode = "multi" =>
        /\ current_track_index = INITIAL_TRACK_INDEX + Len(runs)
        /\ \A r \in 1..Len(runs) : runs[r].track = INITIAL_TRACK_INDEX + (r - 1)
        /\ pc # "idle" => track_index = INITIAL_TRACK_INDEX + Len(runs)
        /\ Len(runs) <= presses

\* two runs completed, the first of which ended in the except clause
C8_Witness ==
    /\ mode = "multi" /\ pc = "idle"
    /\ Len(runs) = 2
    /\ runs[1].failed /\ ~runs[2].failed
    /\ current_track_index = INITIAL_TRACK_INDEX + 2

\* C11 (as claimed): in a run that has sent a create_clip message the clip length
\* carried by that message covers the notes sent: start_time + duration of every
\* note sent is at most that length.  A note starts where its predecessor ended
\* and the last note ends at current_time, so the ends are nondecreasing along
\* notes_for_osc and the last note's is the largest: once the last note has been
\* sent, current_time is at most the length sent.
C11_ClipCoversNotes ==
    \A c \in Positions(CreateAddress) :
        (mode \in {"chords", "multi"} /\ sent_k > 0 /\ sent_k = Len(notes_for_osc)) =>
            current_time <= sent[c][4]

(***************************************************************************)
(* Claims about get_quantum_random_numbers                                 *)
(***************************************************************************)
InRange(seq, mx) == \A i \in 1..Len(seq) : seq[i] >= 0 /\ seq[i] < mx

\* C1: for count >= 0 and max_value > 0 the call returns exactly count integers,
\* each in [0, max_value); while it runs, a draw >= max_value is never appended
\* and the list never grows beyond count, whatever the batches contain.
C1_ExactCountInRange ==
    mode = "sampler" /\ max_value > 0 =>
        /\ Len(generated_numbers) <= count
        /\ InRange(generated_numbers, max_value)
        /\ pc = "returned" =>
              /\ result.kind = "return"
              /\ Len(result.value) = count
              /\ InRange(result.value, max_value)

\* a call that needed a second batch (draws were rejected) and whose last batch
\* still had unvisited shots when count was reached
C1_Witness ==
    /\ mode = "sampler" /\ pc = "returned"
    /\ max_value = 3 /\ count = MaxCount
    /\ batch_size < 2 * count
    /\ shots_left > 0
    /\ Len(result.value) = count

\* C9 (as claimed): a call with max_value <= 0 fails with InvalidArgument and
\* returns no value; a call with count = 0 and max_value > 0 returns the empty list.
C9_InvalidArgument ==
    mode = "sampler" /\ pc = "returned" =>
        /\ max_value <= 0 => result.kind = "raise"
        /\ (count = 0 /\ max_value > 0) => result = Return(<< >>)

\* C10: every batch requested has size 2 * (count - accepted so far) > 0, the
\* number of accepted values never decreases and never exceeds count, the bit
\* source is not invoked when max_value = 1 or count = 0, and (the bit source
\* being fair) the call eventually returns, with exactly count values.
C10_Terminates ==
    /\ [](mode = "sampler" /\ pc = "for" /\ shots_left = batch_size =>
            /\ batch_size = 2 * (count - Len(generated_numbers))
            /\ batch_size > 0)
    /\ [][Len(generated_numbers') >= Len(generated_numbers)]_vars
    /\ [](Len(generated_numbers) <= count)
    /\ []((max_value = 1 \/ count = 0) => ~invoked)
    /\ <>(pc = "returned")
    /\ [](pc = "returned" /\ max_value > 0 => Len(result.value) = count)

\* a call that went round the while loop more than once before it returned
C10_Witness ==
    /\ mode = "sampler" /\ pc = "returned"
    /\ invoked /\ max_value >= 2 /\ count >= 2
    /\ batch_size = 2
    /\ Len(result.value) = count

====
